---- MODULE Spec2Model ----
(***************************************************************************)
(* Model of auto_poster.py: phase 1 (ImageFetcher.process_file) rewrites   *)
(* photo_history.md line by line, phase 2 (WordPressPoster.process) splits *)
(* the file into articles and posts them.                                  *)
(*                                                                         *)
(* A document is a sequence of characters.  A character is a string; a few *)
(* fixed multi-character texts of the source are one character here:       *)
(*   "M"   the entry marker text `**■ J (E) ｜` matched by self.pattern     *)
(*   "!["  the image-reference token                                       *)
(*   "V"   the text ` 記事Vol`, so `## 記事Vol` is "#","#","V"               *)
(*   "T"   the text ` タイトル：`, so `### タイトル：` is "#","#","#","T"      *)
(*   "x", "a", "b"  ordinary text                                          *)
(***************************************************************************)
EXTENDS Integers, Sequences, FiniteSets, TLC

MaxLines == 3
MaxRuns == 2

VARIABLES fileExists, file, respA, respB, argv_dry, wp_user, wp_password,
          wp_site, pc, run, lines, new_lines, i, cur, image_url, queries,
          inserted, writes, dry_run, articles, k, posts, log, file0, firstOut

vars == <<fileExists, file, respA, respB, argv_dry, wp_user, wp_password,
          wp_site, pc, run, lines, new_lines, i, cur, image_url, queries,
          inserted, writes, dry_run, articles, k, posts, log, file0, firstOut>>

None == "None"
NL == "\n"
Whitespace == {" ", NL}

-----------------------------------------------------------------------------
(* String helpers (Python str / list semantics)                            *)

RECURSIVE Concat(_)
Concat(ss) == IF ss = <<>> THEN <<>> ELSE Head(ss) \o Concat(Tail(ss))

RECURSIVE ReadLinesFrom(_, _)
ReadLinesFrom(s, acc) ==
    IF s = <<>> THEN (IF acc = <<>> THEN <<>> ELSE <<acc>>)
    ELSE IF Head(s) = NL
         THEN <<Append(acc, NL)>> \o ReadLinesFrom(Tail(s), <<>>)
         ELSE ReadLinesFrom(Tail(s), Append(acc, Head(s)))

readlines(s) == ReadLinesFrom(s, <<>>)

RECURSIVE lstrip(_)
lstrip(s) == IF s # <<>> /\ Head(s) \in Whitespace THEN lstrip(Tail(s)) ELSE s

RECURSIVE rstrip(_)
rstrip(s) ==
    IF s # <<>> /\ s[Len(s)] \in Whitespace
    THEN rstrip(SubSeq(s, 1, Len(s) - 1)) ELSE s

strip(s) == rstrip(lstrip(s))

IsPrefixAt(s, p, tok) ==
    /\ p >= 1
    /\ p + Len(tok) - 1 <= Len(s)
    /\ SubSeq(s, p, p + Len(tok) - 1) = tok

startswith(s, tok) == IsPrefixAt(s, 1, tok)

Contains(s, tok) == \E p \in 1..Len(s) : IsPrefixAt(s, p, tok)

RECURSIVE replace(_, _)
replace(s, old) ==
    IF s = <<>> THEN <<>>
    ELSE IF old # <<>> /\ startswith(s, old)
         THEN replace(SubSeq(s, Len(old) + 1, Len(s)), old)
         ELSE <<Head(s)>> \o replace(Tail(s), old)

RECURSIVE UpToNewline(_)
UpToNewline(s) ==
    IF s = <<>> \/ Head(s) = NL THEN <<>> ELSE <<Head(s)>> \o UpToNewline(Tail(s))

-----------------------------------------------------------------------------
(* ImageFetcher                                                            *)

MARKER == "M"
IMAGE_TOKEN == <<"![">>

pattern_match(line) == startswith(lstrip(line), <<MARKER>>)

jp_name(line) == "J"
en_name(line) == "E"

RespAKinds == {"error", "nopages", "pdf", "jpg"}
RespBKinds == {"error", "noitems", "thumb"}

fetch_wikimedia_image(query, resp) ==
    IF resp = "jpg"
    THEN (IF query = "E" THEN "https://commons/E.jpg" ELSE "https://commons/J.jpg")
    ELSE None

fetch_google_books_image(query, resp) ==
    IF resp = "thumb"
    THEN (IF query = "E" THEN "https://books/E" ELSE "https://books/J")
    ELSE None

(* Mutation: the check looks at the marker line itself, not the next line. *)
image_already_present_mut(ls, n) ==
    n <= Len(ls) /\ startswith(strip(ls[n]), IMAGE_TOKEN)

image_already_present(ls, n) ==
    n < Len(ls) /\ startswith(strip(ls[n + 1]), IMAGE_TOKEN)

RefLine(jp, en, url) == <<"![", jp, " (", en, ")](", url, ")", NL, NL>>

(* Mutation: the existence check is missing; a missing file reads as empty. *)
ProcessFileStart_mut ==
    /\ pc = "p1_start"
    /\ lines' = readlines(file)
    /\ new_lines' = <<>>
    /\ i' = 0
    /\ pc' = "p1_loop"
    /\ UNCHANGED <<fileExists, file, respA, respB, argv_dry, wp_user,
                   wp_password, wp_site, run, cur, image_url, queries,
                   inserted, writes, dry_run, articles, k, posts, log, file0,
                   firstOut>>

ProcessFileStart ==
    /\ pc = "p1_start"
    /\ IF ~fileExists
       THEN /\ log' = Append(log, [kind |-> "File not found", title |-> <<>>])
            /\ pc' = "p1_done"
            /\ UNCHANGED <<lines, new_lines, i>>
       ELSE /\ lines' = readlines(file)
            /\ new_lines' = <<>>
            /\ i' = 0
            /\ pc' = "p1_loop"
            /\ UNCHANGED log
    /\ UNCHANGED <<fileExists, file, respA, respB, argv_dry, wp_user,
                   wp_password, wp_site, run, cur, image_url, queries,
                   inserted, writes, dry_run, articles, k, posts, file0,
                   firstOut>>

ScanLine ==
    /\ pc = "p1_loop"
    /\ i < Len(lines)
    /\ new_lines' = Append(new_lines, lines[i + 1])
    /\ i' = i + 1
    /\ IF pattern_match(lines[i + 1])
       THEN IF image_already_present(lines, i + 1)
            THEN /\ log' = Append(log, [kind |-> "Skipping", title |-> <<>>])
                 /\ UNCHANGED <<pc, cur>>
            ELSE /\ pc' = "p1_queryA"
                 /\ cur' = i + 1
                 /\ UNCHANGED log
       ELSE UNCHANGED <<pc, cur, log>>
    /\ UNCHANGED <<fileExists, file, respA, respB, argv_dry, wp_user,
                   wp_password, wp_site, run, lines, image_url, queries,
                   inserted, writes, dry_run, articles, k, posts, file0,
                   firstOut>>

(* Mutation: the fallback source is asked whatever source A returned.      *)
QueryA_mut ==
    /\ pc = "p1_queryA"
    /\ LET q == en_name(lines[cur])
       IN /\ queries' = Append(queries, [src |-> "A", q |-> q, at |-> cur])
          /\ image_url' = fetch_wikimedia_image(q, respA)
          /\ pc' = "p1_queryB"
    /\ UNCHANGED <<fileExists, file, respA, respB, argv_dry, wp_user,
                   wp_password, wp_site, run, lines, new_lines, i, cur,
                   inserted, writes, dry_run, articles, k, posts, log, file0,
                   firstOut>>

QueryA ==
    /\ pc = "p1_queryA"
    /\ LET q == en_name(lines[cur])
           r == fetch_wikimedia_image(q, respA)
       IN /\ queries' = Append(queries, [src |-> "A", q |-> q, at |-> cur])
          /\ image_url' = r
          /\ pc' = IF r = None THEN "p1_queryB" ELSE "p1_insert"
    /\ UNCHANGED <<fileExists, file, respA, respB, argv_dry, wp_user,
                   wp_password, wp_site, run, lines, new_lines, i, cur,
                   inserted, writes, dry_run, articles, k, posts, log, file0,
                   firstOut>>

QueryB ==
    /\ pc = "p1_queryB"
    /\ LET q == en_name(lines[cur])
       IN /\ queries' = Append(queries, [src |-> "B", q |-> q, at |-> cur])
          /\ image_url' = fetch_google_books_image(q, respB)
    /\ pc' = "p1_insert"
    /\ UNCHANGED <<fileExists, file, respA, respB, argv_dry, wp_user,
                   wp_password, wp_site, run, lines, new_lines, i, cur,
                   inserted, writes, dry_run, articles, k, posts, log, file0,
                   firstOut>>

(* Mutation: the file is rewritten as soon as a reference is inserted.     *)
InsertImage_mut ==
    /\ pc = "p1_insert"
    /\ IF image_url # None
       THEN /\ new_lines' = Append(new_lines,
                  RefLine(jp_name(lines[cur]), en_name(lines[cur]), image_url))
            /\ inserted' = Append(inserted, [at |-> cur, url |-> image_url])
            /\ file' = Concat(new_lines')
            /\ writes' = writes + 1
            /\ UNCHANGED log
       ELSE /\ log' = Append(log, [kind |-> "No image found", title |-> <<>>])
            /\ UNCHANGED <<new_lines, inserted, file, writes>>
    /\ pc' = "p1_loop"
    /\ UNCHANGED <<fileExists, respA, respB, argv_dry, wp_user,
                   wp_password, wp_site, run, lines, i, cur, image_url,
                   queries, dry_run, articles, k, posts, file0, firstOut>>

InsertImage ==
    /\ pc = "p1_insert"
    /\ IF image_url # None
       THEN /\ new_lines' = Append(new_lines,
                  RefLine(jp_name(lines[cur]), en_name(lines[cur]), image_url))
            /\ inserted' = Append(inserted, [at |-> cur, url |-> image_url])
            /\ UNCHANGED log
       ELSE /\ log' = Append(log, [kind |-> "No image found", title |-> <<>>])
            /\ UNCHANGED <<new_lines, inserted>>
    /\ pc' = "p1_loop"
    /\ UNCHANGED <<fileExists, file, respA, respB, argv_dry, wp_user,
                   wp_password, wp_site, run, lines, i, cur, image_url,
                   queries, writes, dry_run, articles, k, posts, file0,
                   firstOut>>

WriteFile ==
    /\ pc = "p1_loop"
    /\ i = Len(lines)
    /\ file' = Concat(new_lines)
    /\ fileExists' = TRUE
    /\ writes' = writes + 1
    /\ pc' = "p1_done"
    /\ UNCHANGED <<respA, respB, argv_dry, wp_user, wp_password,
                   wp_site, run, lines, new_lines, i, cur, image_url, queries,
                   inserted, dry_run, articles, k, posts, log, file0, firstOut>>

-----------------------------------------------------------------------------
(* WordPressPoster                                                         *)

HEADER == <<"#", "#", "V">>
TITLE == <<"#", "#", "#", "T">>
EXAMPLE_SITE == "https://example.com"

all(vals) == \A n \in 1..Len(vals) : vals[n] # None /\ vals[n] # ""

(* Mutation: one credential present is taken to be enough (any for all).   *)
WordPressPoster_init_mut(dry_arg, user, password, site) ==
    IF ~dry_arg /\ (\A v \in {user, password, site} : v = None \/ v = "")
    THEN TRUE ELSE dry_arg

WordPressPoster_init(dry_arg, user, password, site) ==
    IF ~dry_arg /\ ~all(<<user, password, site>>) THEN TRUE ELSE dry_arg

RECURSIVE SplitFrom(_, _)
SplitFrom(s, acc) ==
    IF s = <<>> THEN <<acc>>
    ELSE IF startswith(s, HEADER)
         THEN <<acc>> \o SplitFrom(Tail(s), <<Head(s)>>)
         ELSE SplitFrom(Tail(s), Append(acc, Head(s)))

re_split(content) == SplitFrom(content, <<>>)

TitleMatches(part) ==
    {p \in 1..Len(part) :
        /\ IsPrefixAt(part, p, TITLE)
        /\ p + Len(TITLE) <= Len(part)
        /\ part[p + Len(TITLE)] # NL}

title_match(part) ==
    IF TitleMatches(part) = {} THEN 0
    ELSE CHOOSE p \in TitleMatches(part) : \A q \in TitleMatches(part) : p <= q

group1(part, p) == UpToNewline(SubSeq(part, p + Len(TITLE), Len(part)))
group0(part, p) == TITLE \o group1(part, p)

markdown(part) == <<"<html>">> \o part

Article(part) ==
    LET m == title_match(part)
        title == IF m # 0 THEN strip(group1(part, m))
                 ELSE strip(SelectSeq(UpToNewline(strip(part)),
                                      LAMBDA c : c # "#"))
        body == IF m # 0 THEN replace(part, group0(part, m)) ELSE part
    IN [title |-> title, content |-> markdown(body),
        section |-> part, body |-> body]

RECURSIVE ArticlesOf(_)
ArticlesOf(parts) ==
    IF parts = <<>> THEN <<>>
    ELSE IF strip(Head(parts)) = <<>> \/ ~Contains(Head(parts), HEADER)
         THEN ArticlesOf(Tail(parts))
         ELSE <<Article(Head(parts))>> \o ArticlesOf(Tail(parts))

split_articles(content) == ArticlesOf(re_split(content))

Main ==
    /\ pc = "p1_done"
    /\ dry_run' = WordPressPoster_init(argv_dry \/ wp_site = EXAMPLE_SITE,
                                       wp_user, wp_password, wp_site)
    /\ pc' = "p2_start"
    /\ UNCHANGED <<fileExists, file, respA, respB, argv_dry, wp_user,
                   wp_password, wp_site, run, lines, new_lines, i, cur,
                   image_url, queries, inserted, writes, articles, k, posts,
                   log, file0, firstOut>>

ProcessStart ==
    /\ pc = "p2_start"
    /\ IF ~fileExists
       THEN /\ log' = Append(log, [kind |-> "File not found", title |-> <<>>])
            /\ pc' = "p2_done"
            /\ UNCHANGED <<articles, k>>
       ELSE /\ articles' = split_articles(file)
            /\ k' = 0
            /\ pc' = "p2_post"
            /\ UNCHANGED log
    /\ UNCHANGED <<fileExists, file, respA, respB, argv_dry, wp_user,
                   wp_password, wp_site, run, lines, new_lines, i, cur,
                   image_url, queries, inserted, writes, dry_run, posts,
                   file0, firstOut>>

Outcomes == {"Successfully posted", "Failed to post"}

(* Mutation: a failed submission ends the batch.                           *)
post_article_mut ==
    /\ pc = "p2_post"
    /\ k < Len(articles)
    /\ LET article == articles[k + 1]
           payload == [title |-> article.title, content |-> article.content,
                       status |-> "draft"]
       IN IF dry_run
          THEN /\ log' = Append(log, [kind |-> "[DRY RUN] Posting Article",
                                      title |-> article.title])
               /\ UNCHANGED <<posts, pc>>
          ELSE \E outcome \in {"Successfully posted", "Failed to post"} :
               /\ posts' = Append(posts, payload)
               /\ log' = Append(log, [kind |-> outcome,
                                      title |-> article.title])
               /\ pc' = IF outcome = "Failed to post" THEN "p2_done" ELSE pc
    /\ k' = k + 1
    /\ UNCHANGED <<fileExists, file, respA, respB, argv_dry, wp_user,
                   wp_password, wp_site, run, lines, new_lines, i, cur,
                   image_url, queries, inserted, writes, dry_run, articles,
                   file0, firstOut>>

post_article ==
    /\ pc = "p2_post"
    /\ k < Len(articles)
    /\ LET article == articles[k + 1]
           payload == [title |-> article.title, content |-> article.content,
                       status |-> "draft"]
       IN IF dry_run
          THEN /\ log' = Append(log, [kind |-> "[DRY RUN] Posting Article",
                                      title |-> article.title])
               /\ UNCHANGED posts
          ELSE \E outcome \in Outcomes :
               /\ posts' = Append(posts, payload)
               /\ log' = Append(log, [kind |-> outcome,
                                      title |-> article.title])
    /\ k' = k + 1
    /\ UNCHANGED <<fileExists, file, respA, respB, argv_dry, wp_user,
                   wp_password, wp_site, pc, run, lines, new_lines, i, cur,
                   image_url, queries, inserted, writes, dry_run, articles,
                   file0, firstOut>>

ProcessEnd ==
    /\ pc = "p2_post"
    /\ k = Len(articles)
    /\ pc' = "p2_done"
    /\ UNCHANGED <<fileExists, file, respA, respB, argv_dry, wp_user,
                   wp_password, wp_site, run, lines, new_lines, i, cur,
                   image_url, queries, inserted, writes, dry_run, articles, k,
                   posts, log, file0, firstOut>>

(* The script is started again on the file the previous run left behind.   *)
Rerun ==
    /\ pc = "p2_done"
    /\ run < MaxRuns
    /\ run' = run + 1
    /\ pc' = "p1_start"
    /\ firstOut' = file
    /\ file0' = file
    /\ lines' = <<>>
    /\ new_lines' = <<>>
    /\ i' = 0
    /\ cur' = 0
    /\ image_url' = None
    /\ queries' = <<>>
    /\ inserted' = <<>>
    /\ writes' = 0
    /\ dry_run' = FALSE
    /\ articles' = <<>>
    /\ k' = 0
    /\ posts' = <<>>
    /\ log' = <<>>
    /\ UNCHANGED <<fileExists, file, respA, respB, argv_dry, wp_user,
                   wp_password, wp_site>>

-----------------------------------------------------------------------------
(* Documents and environments the runs start from                          *)

EntryLines == { <<"M">>, <<" ", "M">>, <<"![">>, <<" ", "![">>, <<"x">>, <<>> }

ArticleLines == { <<"#", "#", "V">>,
                  <<"#", "#", "#", "T", "a">>,
                  <<"#", "#", "#", "T", " ", "b">>,
                  <<"#", "#", "#", "T">>,
                  <<"x", "#", "#", "V">>,
                  <<"#", "#", "#", "V">>,
                  <<"x", "#", "#", "#", "T", "a">>,
                  <<"x">> }

RECURSIVE Join(_, _)
Join(ls, terminated) ==
    IF ls = <<>> THEN <<>>
    ELSE IF Len(ls) = 1
         THEN Head(ls) \o (IF terminated THEN <<NL>> ELSE <<>>)
         ELSE Head(ls) \o <<NL>> \o Join(Tail(ls), terminated)

Documents(lineSet) ==
    { Join(ls, t) : ls \in UNION { [1..n -> lineSet] : n \in 0..MaxLines },
                    t \in BOOLEAN }

InitRun ==
    /\ pc = "p1_start"
    /\ run = 1
    /\ lines = <<>>
    /\ new_lines = <<>>
    /\ i = 0
    /\ cur = 0
    /\ image_url = None
    /\ queries = <<>>
    /\ inserted = <<>>
    /\ writes = 0
    /\ dry_run = FALSE
    /\ articles = <<>>
    /\ k = 0
    /\ posts = <<>>
    /\ log = <<>>
    /\ file0 = file
    /\ firstOut = <<>>

InitEntries ==
    /\ fileExists = TRUE
    /\ file \in Documents(EntryLines)
    /\ respA \in RespAKinds
    /\ respB \in RespBKinds
    /\ argv_dry = FALSE
    /\ wp_user = "user"
    /\ wp_password = "password"
    /\ wp_site = "https://site"

InitArticles ==
    /\ fileExists = TRUE
    /\ file \in Documents(ArticleLines)
    /\ respA = "nopages"
    /\ respB = "noitems"
    /\ argv_dry \in BOOLEAN
    /\ wp_user \in {None, "user"}
    /\ wp_password \in {None, "password"}
    /\ wp_site \in {None, EXAMPLE_SITE, "https://site"}

InitMissing ==
    /\ fileExists = FALSE
    /\ file = <<>>
    /\ respA \in RespAKinds
    /\ respB \in RespBKinds
    /\ argv_dry \in BOOLEAN
    /\ wp_user \in {None, "user"}
    /\ wp_password \in {None, "password"}
    /\ wp_site \in {None, EXAMPLE_SITE, "https://site"}

Init == (InitEntries \/ InitArticles \/ InitMissing) /\ InitRun

Next ==
    \/ ProcessFileStart
    \/ ScanLine
    \/ QueryA
    \/ QueryB
    \/ InsertImage
    \/ WriteFile
    \/ Main
    \/ ProcessStart
    \/ post_article
    \/ ProcessEnd
    \/ Rerun

Spec == Init /\ [][Next]_vars

TypeOK == pc \in {"p1_start", "p1_loop", "p1_queryA", "p1_queryB", "p1_insert",
                  "p1_done", "p2_start", "p2_post", "p2_done"}

-----------------------------------------------------------------------------
(* Properties                                                              *)

InPhase1 == pc \in {"p1_loop", "p1_queryA", "p1_queryB", "p1_insert"}
AfterPhase1 == pc \in {"p1_done", "p2_start", "p2_post", "p2_done"}
InPhase2 == pc \in {"p2_post", "p2_done"}

URL_A == "https://commons/E.jpg"
URL_B == "https://books/E"

ReferenceText(url) == <<"![", "J", " (", "E", ")](", url, ")">>

Unenriched(ls, j) ==
    /\ pattern_match(ls[j])
    /\ ~(j < Len(ls) /\ startswith(strip(ls[j + 1]), IMAGE_TOKEN))

(* C1: running process_file a second time, with sources A and B answering  *)
(* as before, leaves the file exactly as the first run left it and inserts *)
(* no image reference line.                                                *)
C1_Idempotent ==
    (run >= 2 /\ AfterPhase1) => (file = firstOut /\ inserted = <<>>)

(* C2: when source A returns a URL, the written file is the input with,    *)
(* directly beneath every entry marker line that has no image line after   *)
(* it, one reference line `![J (E)](url)` and one blank line, each a line  *)
(* of its own; every input line is kept unchanged and in order.            *)
C2_InsertsOneReferenceLine ==
    LET RECURSIVE Expected(_, _)
        Expected(ls, j) ==
            IF j > Len(ls) THEN <<>>
            ELSE <<ls[j]>>
                 \o (IF Unenriched(ls, j)
                     THEN <<Append(ReferenceText(URL_A), NL), <<NL>> >>
                     ELSE <<>>)
                 \o Expected(ls, j + 1)
    IN (AfterPhase1 /\ writes = 1 /\ respA = "jpg")
          => readlines(file) = Expected(readlines(file0), 1)

(* C3: an entry marker line directly followed by a line starting with `![` *)
(* causes no query to A or B and no insertion, and both lines are written  *)
(* back unchanged and adjacent.                                            *)
C3_EnrichedPairUntouched ==
    \A j \in 1..(Len(lines) - 1) :
        (pattern_match(lines[j]) /\ startswith(lines[j + 1], IMAGE_TOKEN)) =>
            /\ \A n \in 1..Len(queries) : queries[n].at # j
            /\ \A n \in 1..Len(inserted) : inserted[n].at # j
            /\ (AfterPhase1 /\ writes = 1) =>
                 LET out == readlines(file)
                     p == j + 2 * Cardinality({n \in 1..Len(inserted) :
                                                 inserted[n].at < j})
                 IN /\ p + 1 <= Len(out)
                    /\ out[p] = lines[j]
                    /\ out[p + 1] = lines[j + 1]

C3_Witness ==
    /\ pc = "p1_done"
    /\ writes = 1
    /\ queries # <<>>
    /\ inserted # <<>>
    /\ \E j \in 2..(Len(lines) - 1) :
          pattern_match(lines[j]) /\ startswith(lines[j + 1], IMAGE_TOKEN)

(* C4: for every entry marker line without an image line, A is queried     *)
(* first with the secondary name, B is queried with the same name only if  *)
(* A gave nothing, the inserted reference carries A's URL if A gave one,   *)
(* else B's URL if B gave one, and if neither did nothing is inserted and  *)
(* the document is written back unchanged.                                 *)
C4_SourceChain ==
    LET chosen == IF respA = "jpg" THEN URL_A
                  ELSE IF respB = "thumb" THEN URL_B ELSE None
        handled(j) == j <= i /\ ~(j = cur /\ pc \in {"p1_queryA", "p1_queryB",
                                                     "p1_insert"})
        QA(j) == {n \in 1..Len(queries) :
                    queries[n] = [src |-> "A", q |-> "E", at |-> j]}
        QB(j) == {n \in 1..Len(queries) :
                    queries[n] = [src |-> "B", q |-> "E", at |-> j]}
        Ins(j) == {n \in 1..Len(inserted) : inserted[n].at = j}
        RECURSIVE Expected(_, _)
        Expected(ls, j) ==
            IF j > Len(ls) THEN <<>>
            ELSE ls[j]
                 \o (IF Unenriched(ls, j) /\ chosen # None
                     THEN ReferenceText(chosen) \o <<NL, NL>> ELSE <<>>)
                 \o Expected(ls, j + 1)
    IN /\ \A n \in 1..Len(queries) :
            /\ queries[n].q = "E"
            /\ queries[n].src = "B" =>
                 /\ n > 1
                 /\ queries[n - 1].src = "A"
                 /\ queries[n - 1].at = queries[n].at
                 /\ respA # "jpg"
       /\ \A j \in 1..Len(lines) :
            (Unenriched(lines, j) /\ handled(j)) =>
               /\ Cardinality(QA(j)) = 1
               /\ Cardinality(QB(j)) = (IF respA = "jpg" THEN 0 ELSE 1)
               /\ \A a \in QA(j), b \in QB(j) : a < b
               /\ IF chosen = None THEN Ins(j) = {}
                  ELSE /\ Cardinality(Ins(j)) = 1
                       /\ \A n \in Ins(j) : inserted[n].url = chosen
       /\ (AfterPhase1 /\ writes = 1) =>
            /\ file = Expected(lines, 1)
            /\ chosen = None => file = file0

C4_Witness ==
    /\ pc = "p1_done"
    /\ writes = 1
    /\ respA = "pdf"
    /\ respB = "thumb"
    /\ Len(inserted) = 2
    /\ Len(queries) = 4

(* C5: split_articles yields one record per line that begins with the      *)
(* header marker `## 記事Vol`, each section starting with its marker line,  *)
(* in document order; a marker inside a line or inside `### 記事Vol` starts *)
(* no section.                                                             *)
C5_SplitAtLineStartOnly ==
    LET starts == {p \in 1..Len(file) :
                     IsPrefixAt(file, p, HEADER) /\ (p = 1 \/ file[p - 1] = NL)}
    IN (InPhase2 /\ fileExists) =>
          /\ Len(articles) = Cardinality(starts)
          /\ \A n \in 1..Len(articles) : startswith(articles[n].section, HEADER)
          /\ starts # {} =>
               Concat([n \in 1..Len(articles) |-> articles[n].section])
                 = SubSeq(file, CHOOSE p \in starts : \A q \in starts : p <= q,
                          Len(file))

(* C6: for a section holding the title marker `### タイトル：`, the title is *)
(* the trimmed remainder of the line with the first occurrence of the      *)
(* marker, and the rendered body is the section with that one whole line   *)
(* removed and nothing else changed.                                       *)
C6_TitleLineRemoved ==
    (InPhase2 /\ fileExists) =>
      \A n \in 1..Len(articles) :
        LET sec == articles[n].section
            occ == {p \in 1..Len(sec) : IsPrefixAt(sec, p, TITLE)}
            first == CHOOSE p \in occ : \A q \in occ : p <= q
            lineStart == CHOOSE b \in 1..first :
                            /\ (b = 1 \/ sec[b - 1] = NL)
                            /\ \A c \in b..first : sec[c] # NL
            rest == UpToNewline(SubSeq(sec, first + Len(TITLE), Len(sec)))
            lineEnd == first + Len(TITLE) + Len(rest) - 1
            before == SubSeq(sec, 1, lineStart - 1)
        IN occ # {} =>
             /\ articles[n].title = strip(rest)
             /\ articles[n].body \in
                  { before \o SubSeq(sec, lineEnd + 1, Len(sec)),
                    before \o SubSeq(sec, lineEnd + 2, Len(sec)) }

DryRunNotices == SelectSeq(log, LAMBDA e : e.kind = "[DRY RUN] Posting Article")
PostResults == SelectSeq(log, LAMBDA e : e.kind \in Outcomes)

(* C7: a poster constructed with dry_run=True, or with the user, password  *)
(* or site URL missing, never sends a POST and logs one simulated-post     *)
(* notice per article, in document order.                                  *)
C7_DryRunNoSubmission ==
    (\/ argv_dry
     \/ wp_site = EXAMPLE_SITE
     \/ None \in {wp_user, wp_password, wp_site}) =>
        /\ posts = <<>>
        /\ InPhase2 =>
             /\ DryRunNotices = [n \in 1..k |-> [kind |-> "[DRY RUN] Posting Article",
                                                 title |-> articles[n].title]]
             /\ pc = "p2_done" /\ fileExists => k = Len(articles)

C7_Witness ==
    /\ pc = "p2_done"
    /\ ~argv_dry
    /\ wp_site = "https://site"
    /\ wp_user = "user"
    /\ wp_password = None
    /\ Len(articles) >= 2
    /\ Len(DryRunNotices) = Len(articles)
    /\ articles[1].title # articles[2].title

(* C8: without dry-run every article is submitted exactly once, in         *)
(* document order, whether or not earlier submissions failed; a failure is *)
(* logged, not retried, and the run reaches its end: every step of the     *)
(* posting loop moves on to the next article or finishes, and one of the   *)
(* two is always possible.                                                 *)
C8_State ==
    (InPhase2 /\ ~dry_run /\ fileExists) =>
        /\ posts = [n \in 1..k |-> [title |-> articles[n].title,
                                    content |-> articles[n].content,
                                    status |-> "draft"]]
        /\ Len(PostResults) = k
        /\ \A n \in 1..k : PostResults[n].title = articles[n].title
        /\ k <= Len(articles)
        /\ pc = "p2_done" => k = Len(articles)
        /\ pc = "p2_post" => ENABLED (post_article \/ ProcessEnd)

C8_Step ==
    (pc = "p2_post" /\ ~dry_run) =>
        \/ pc' = "p2_post" /\ k' = k + 1 /\ Len(posts') = Len(posts) + 1
        \/ pc' = "p2_done" /\ k = Len(articles) /\ posts' = posts

C8_EveryArticleSubmittedOnce == []C8_State /\ [][C8_Step]_vars

C8_Witness ==
    /\ pc = "p2_done"
    /\ ~dry_run
    /\ Len(posts) >= 2
    /\ PostResults[1].kind = "Failed to post"
    /\ PostResults[2].kind = "Successfully posted"

(* C9: with the document missing, process_file queries nothing and writes  *)
(* or creates no file, process extracts no section and submits nothing,    *)
(* really or simulated, and both return after reporting the missing file.  *)
C9_MissingFileNoOp ==
    /\ (InPhase1 \/ pc = "p2_post") => fileExists
    /\ ~fileExists =>
         /\ queries = <<>>
         /\ inserted = <<>>
         /\ writes = 0
         /\ file = <<>>
         /\ articles = <<>>
         /\ posts = <<>>
         /\ \A n \in 1..Len(log) : log[n].kind = "File not found"
         /\ Len(log) = (IF pc = "p1_start" THEN 0
                        ELSE IF pc \in {"p1_done", "p2_start"} THEN 1 ELSE 2)

C9_Witness == ~fileExists /\ pc = "p2_done" /\ run = 2

(* C10: the file is written once per run, after the last query; while a    *)
(* query is pending or running the file on disk is the file that was read. *)
C10_WriteOnceAfterQueries ==
    /\ (pc = "p1_start" \/ InPhase1) => (file = file0 /\ writes = 0)
    /\ (AfterPhase1 /\ fileExists) =>
          /\ writes = 1
          /\ i = Len(lines)
          /\ \A j \in 1..Len(lines) :
                Unenriched(lines, j) =>
                   \E n \in 1..Len(queries) : queries[n].at = j

C10_Witness ==
    /\ pc = "p1_queryB"
    /\ Len(inserted) = 1
    /\ Len(queries) = 3
    /\ Concat(new_lines) # file
    /\ file = file0

====
